---------------------------- MODULE Spec2Model ----------------------------
(***************************************************************************)
(* Contacts REST service: server start-up (src/server.js), the database    *)
(* handle (src/db/connect.js) and the five route handlers                  *)
(* (src/routes/contacts.js).  A handler is cut at its awaits: one action   *)
(* per database operation, each taking effect atomically and running the   *)
(* handler on to its next await or to its response.                        *)
(***************************************************************************)
EXTENDS Integers, Sequences, FiniteSets

\* Number of requests the server may be handling at the same time.
MaxInflight == 2
\* Cap on the sequence counter: POST is accepted while seq < MaxSeq.
MaxSeq == 2

Slots == 1..MaxInflight

\* A path id is a sequence of characters.  The ids clients send: an integer
\* literal, a signed one, and strings that are not integer literals (letters,
\* a bare sign, a digit prefix followed by something else, leading white
\* space, a hexadecimal prefix).  The route /:id matches no empty segment.
PathIds ==
  {<<"1">>, <<"+", "1">>,
   <<"a">>, <<"-">>, <<"a", "1">>, <<"1", "a">>, <<"1", ".", "5">>,
   <<" ", "1">>, <<"0", "x", "1">>}

Required == {"firstName", "lastName", "email", "favoriteColor", "birthday"}

VARIABLES
  server,       \* "connecting" | "connected" | "listening" | "exited"
  db,           \* connect.js `db`: "undefined" | "db"
  contacts,     \* the contacts collection: a set of documents
  counters,     \* the counters collection: a set of documents {_id, seq}
  nextOid,      \* ObjectIds generated so far (insertOne assigns a fresh _id)
  req,          \* per slot: the request being handled
  pc,           \* per slot: the await the handler is suspended at
  loc,          \* per slot: the handler's locals (idNum, id)
  last,         \* what the turn just run received or sent: the request, whether
                \* this is the turn that received it, and the response (if any)
  maxReturned,  \* history: the greatest id a 201 response has carried
  deleted       \* history: the ids for which a DELETE has responded 200

vars == <<server, db, contacts, counters, nextOid, req, pc, loc, last,
          maxReturned, deleted>>

dbVars == <<contacts, counters, nextOid>>
hist == <<maxReturned, deleted>>

---------------------------------------------------------------------------
\* JavaScript values

\* `!x` for a body field: undefined (no such key) and "" are falsy.
Falsy(body, k) == IF k \in DOMAIN body THEN body[k] = "" ELSE TRUE

Digits == <<"0", "1", "2", "3", "4", "5", "6", "7", "8", "9",
            "a", "b", "c", "d", "e", "f">>

\* The value of character c as a digit of radix R, or -1 when it is none.
DigitValue(c, R) ==
  LET hit == {i \in 1..R : Digits[i] = c}
  IN  IF hit = {} THEN -1 ELSE (CHOOSE i \in hit : TRUE) - 1

IsWhiteSpace(c) == c \in {" ", "\t", "\n"}

RECURSIVE TrimStart(_)
TrimStart(s) ==
  IF s # <<>> /\ IsWhiteSpace(Head(s)) THEN TrimStart(Tail(s)) ELSE s

\* The longest prefix of s made of radix-R digits, as a number; n counts them.
RECURSIVE ParseDigits(_, _, _, _)
ParseDigits(s, R, acc, n) ==
  IF s = <<>> \/ DigitValue(Head(s), R) < 0
  THEN [nan |-> n = 0, val |-> acc]
  ELSE ParseDigits(Tail(s), R, acc * R + DigitValue(Head(s), R), n + 1)

\* parseInt(string) with no radix: NaN is [nan |-> TRUE].
parseInt(str) ==
  LET s1 == TrimStart(str)
      neg == s1 # <<>> /\ Head(s1) = "-"
      s2 == IF s1 # <<>> /\ Head(s1) \in {"-", "+"} THEN Tail(s1) ELSE s1
      hex == Len(s2) >= 2 /\ s2[1] = "0" /\ s2[2] \in {"x", "X"}
      s3 == IF hex THEN Tail(Tail(s2)) ELSE s2
      p == ParseDigits(s3, IF hex THEN 16 ELSE 10, 0, 0)
  IN  [nan |-> p.nan, val |-> IF neg THEN 0 - p.val ELSE p.val]

isNaN(p) == p.nan

---------------------------------------------------------------------------
\* Requests and responses

NoBody == [k \in {} |-> ""]
NoReq == [kind |-> "none", id |-> <<>>, body |-> NoBody]
NoLoc == [idNum |-> 0, id |-> 0]

FullBody == [k \in Required |-> "a"]
PostBodies ==
  {FullBody}
    \cup {[k \in Required \ {f} |-> "a"] : f \in Required}
    \cup {[FullBody EXCEPT ![f] = ""] : f \in Required}

\* A PUT body: a firstName, alone or with an id and an _id, which are those
\* of another contact (the one created last).
PutBody(ks) ==
  [k \in ks |-> IF k \in {"id", "_id"} THEN MaxSeq
                ELSE IF "id" \in ks THEN "c" ELSE "b"]
PutBodies == {PutBody({"firstName"}), PutBody({"id", "_id", "firstName"})}

Json(status, tag, val) == [status |-> status, tag |-> tag, val |-> val]
ErrorJson(status, msg) == Json(status, "error", msg)
NoRes == Json(0, "pending", "")
NoExchange == [req |-> NoReq, entry |-> FALSE, idNum |-> 0, res |-> NoRes]

\* What a suspended handler keeps of its request: the path id has been
\* parsed into idNum and is not read again.
Kept(rq) == [rq EXCEPT !.id = <<>>]

\* The handler of slot r sends `res`: the exchange is over and the slot is free.
Respond(r, rq, idNum, res) ==
  /\ last' = [req |-> rq, entry |-> pc[r] = "idle", idNum |-> idNum, res |-> res]
  /\ req' = [req EXCEPT ![r] = NoReq]
  /\ pc' = [pc EXCEPT ![r] = "idle"]
  /\ loc' = [loc EXCEPT ![r] = NoLoc]

\* The handler of slot r suspends at the await `at`; when it has just been
\* entered, `last` shows the request it received.
Await(r, rq, at, l) ==
  /\ req' = [req EXCEPT ![r] = Kept(rq)]
  /\ pc' = [pc EXCEPT ![r] = at]
  /\ loc' = [loc EXCEPT ![r] = l]
  /\ last' = IF pc[r] = "idle"
             THEN [req |-> rq, entry |-> TRUE, idNum |-> l.idNum, res |-> NoRes]
             ELSE last

---------------------------------------------------------------------------
\* The database handle (src/db/connect.js)

\* getDb() throws while `db` is unset; a handler's catch answers 500 with
\* the error's message.
getDbThrows == db # "db"
NotConnected == ErrorJson(500, "Database not connected")

\* An awaited database call rejects: the handler's catch answers 500 with
\* the driver's message.
DbError == ErrorJson(500, "database error")

\* The next await of slot r is a call on getDb(): the handler suspends at
\* `at`, or getDb throws and the catch responds.
CallDb(r, rq, at, l) ==
  IF getDbThrows
  THEN Respond(r, rq, l.idNum, NotConnected)
  ELSE Await(r, rq, at, l)

---------------------------------------------------------------------------
\* Collection operations (the driver's primitives, each atomic)

\* Variant: the lookup filters on _id instead of id.
FindByOid(coll, idNum) == {c \in coll : c._id = idNum}

\* findOne({id: idNum}): the documents the call may return (none: null).
Find(coll, idNum) == {c \in coll : c.id = idNum}

\* Variant: the update is {$set: {seq: 1}} instead of {$inc: {seq: 1}}.
IncCountersSet(cs, seqName) ==
  {c \in cs : c._id # seqName} \cup {[_id |-> seqName, seq |-> 1]}

\* counters.findOneAndUpdate({_id: seqName}, {$inc: {seq: 1}}, {upsert: true}):
\* the collection afterwards.
IncCounters(cs, seqName) ==
  IF \E c \in cs : c._id = seqName
  THEN {IF c._id = seqName THEN [c EXCEPT !.seq = c.seq + 1] ELSE c : c \in cs}
  ELSE cs \cup {[_id |-> seqName, seq |-> 1]}

\* Variant: returnDocument "before", the seq read being the one incremented.
SeqBefore(cs, seqName) ==
  IF \E c \in cs : c._id = seqName
  THEN (CHOOSE c \in cs : c._id = seqName).seq - 1
  ELSE 0

\* The seq of counter document seqName (0 when there is none yet): with
\* returnDocument "after", what getNextSequence returns.
SeqOf(cs, seqName) ==
  IF \E c \in cs : c._id = seqName
  THEN (CHOOSE c \in cs : c._id = seqName).seq
  ELSE 0

\* $set: the document with the fields of `set` written over it.
SetFields(c, set) ==
  [k \in DOMAIN c \cup DOMAIN set |-> IF k \in DOMAIN set THEN set[k] ELSE c[k]]

\* updateOne({id: idNum}, {$set: set}) on matched document c: the collection
\* afterwards.
UpdateMatched(coll, c, set) == (coll \ {c}) \cup {SetFields(c, set)}

\* Variant: updateOne called with {upsert: true}.
UpdateUnmatchedUpsert(coll, idNum, set) ==
  coll \cup {SetFields([id |-> idNum], set)}

\* updateOne with no document matching (upsert is off): nothing changes.
UpdateUnmatched(coll, idNum, set) == coll

\* Variant: the document is reported deleted and left in place.
DeleteKeeps(coll, c) == coll

\* deleteOne on matched document c: the collection afterwards.
DeleteMatched(coll, c) == coll \ {c}

\* The server rejects a $set that would change the immutable _id.
ChangesOid(c, set) == "_id" \in DOMAIN set /\ set["_id"] # c._id

---------------------------------------------------------------------------
\* Handler helpers (src/routes/contacts.js)

\* Variant: the check leaves out birthday.
MissingFieldButBirthday(body) == \E k \in Required \ {"birthday"} : Falsy(body, k)

\* POST's check `!firstName || !lastName || !email || !favoriteColor || !birthday`.
MissingField(body) == \E k \in Required : Falsy(body, k)

\* Variant: only _id is deleted from the copy of the body.
KeepId(body) == [k \in DOMAIN body \ {"_id"} |-> body[k]]

\* PUT's updateData: the body without its id and _id keys.
updateData(body) == [k \in DOMAIN body \ {"id", "_id"} |-> body[k]]

\* POST's contactData, as insertOne stores it under the fresh ObjectId oid.
contactData(id, body, oid) ==
  [_id |-> oid, id |-> id,
   firstName |-> body.firstName, lastName |-> body.lastName,
   email |-> body.email, favoriteColor |-> body.favoriteColor,
   birthday |-> body.birthday]

Max(a, b) == IF a >= b THEN a ELSE b

---------------------------------------------------------------------------
\* Start-up (src/server.js)

Init ==
  /\ server = "connecting"
  /\ db = "undefined"
  /\ contacts = {}
  /\ counters = {}
  /\ nextOid = 0
  /\ req = [r \in Slots |-> NoReq]
  /\ pc = [r \in Slots |-> "idle"]
  /\ loc = [r \in Slots |-> NoLoc]
  /\ last = NoExchange
  /\ maxReturned = 0
  /\ deleted = {}

\* connectToDatabase: client.connect() resolves and `db` is set.
ConnectResolve ==
  /\ server = "connecting"
  /\ db' = "db"
  /\ server' = "connected"
  /\ UNCHANGED <<dbVars, req, pc, loc, last, hist>>

\* client.connect() rejects: the catch logs and calls process.exit(1).
ConnectReject ==
  /\ server = "connecting"
  /\ server' = "exited"
  /\ UNCHANGED <<db, dbVars, req, pc, loc, last, hist>>

\* Variant: app.listen is called without waiting for connectToDatabase().
ListenEarly == server \in {"connecting", "connected"}

\* app.listen runs in the then-callback of connectToDatabase().
CanListen == server = "connected"

Listen ==
  /\ CanListen
  /\ server' = "listening"
  /\ UNCHANGED <<db, dbVars, req, pc, loc, last, hist>>

\* One callback runs at a time: the request or response `last` shows is that
\* of the turn just run, and is gone (Flush) before another callback runs.
Quiet == last = NoExchange

Flush ==
  /\ last # NoExchange
  /\ last' = NoExchange
  /\ UNCHANGED <<server, db, dbVars, req, pc, loc, hist>>

\* A request reaches a handler only while the server listens.
Accepts(r) == server = "listening" /\ pc[r] = "idle" /\ Quiet

\* The await `at` of slot r resolves.
Resumes(r, at) == pc[r] = at /\ Quiet

---------------------------------------------------------------------------
\* GET /contacts

GetAllStart(r) ==
  /\ Accepts(r)
  /\ LET rq == [kind |-> "GETALL", id |-> <<>>, body |-> NoBody]
     IN  CallDb(r, rq, "get_all", NoLoc)
  /\ UNCHANGED <<server, db, dbVars, hist>>

GetAllDone(r) ==
  /\ Resumes(r, "get_all")
  /\ Respond(r, req[r], 0, Json(200, "list", contacts))
  /\ UNCHANGED <<server, db, dbVars, hist>>

---------------------------------------------------------------------------
\* GET /contacts/:id

GetOneStart(r, id) ==
  /\ Accepts(r)
  /\ LET rq == [kind |-> "GET", id |-> id, body |-> NoBody]
         idNum == parseInt(id)
     IN  IF isNaN(idNum)
         THEN Respond(r, rq, 0, ErrorJson(400, "Invalid ID"))
         ELSE CallDb(r, rq, "get_one", [NoLoc EXCEPT !.idNum = idNum.val])
  /\ UNCHANGED <<server, db, dbVars, hist>>

GetOneDone(r) ==
  /\ Resumes(r, "get_one")
  /\ LET found == Find(contacts, loc[r].idNum)
     IN  IF found = {}
         THEN Respond(r, req[r], loc[r].idNum, ErrorJson(404, "Contact not found"))
         ELSE \E contact \in found :
                Respond(r, req[r], loc[r].idNum, Json(200, "doc", contact))
  /\ UNCHANGED <<server, db, dbVars, hist>>

---------------------------------------------------------------------------
\* POST /contacts

\* Increments still to come from the POSTs suspended in getNextSequence.
PendingSeq == Cardinality({q \in Slots : pc[q] = "post_seq"})

PostStart(r, body) ==
  /\ Accepts(r)
  /\ ~MissingField(body) => SeqOf(counters, "contacts") + PendingSeq < MaxSeq
  /\ LET rq == [kind |-> "POST", id |-> <<>>, body |-> body]
     IN  IF MissingField(body)
         THEN Respond(r, rq, 0, ErrorJson(400, "All fields are required"))
         ELSE CallDb(r, rq, "post_seq", NoLoc)
  /\ UNCHANGED <<server, db, dbVars, hist>>

\* getNextSequence("contacts") resolves; the handler goes on to insertOne.
PostSeq(r) ==
  /\ Resumes(r, "post_seq")
  /\ counters' = IncCounters(counters, "contacts")
  /\ CallDb(r, req[r], "post_insert",
            [NoLoc EXCEPT !.id = SeqOf(counters', "contacts")])
  /\ UNCHANGED <<server, db, contacts, nextOid, hist>>

\* insertOne resolves; the handler responds 201 {id}.
PostInsert(r) ==
  /\ Resumes(r, "post_insert")
  /\ nextOid' = nextOid + 1
  /\ contacts' = contacts \cup {contactData(loc[r].id, req[r].body, nextOid')}
  /\ Respond(r, req[r], 0, Json(201, "id", loc[r].id))
  /\ maxReturned' = Max(maxReturned, loc[r].id)
  /\ UNCHANGED <<server, db, counters, deleted>>

---------------------------------------------------------------------------
\* PUT /contacts/:id

PutStart(r, id, body) ==
  /\ Accepts(r)
  /\ LET rq == [kind |-> "PUT", id |-> id, body |-> body]
         idNum == parseInt(id)
     IN  IF isNaN(idNum)
         THEN Respond(r, rq, 0, ErrorJson(400, "Invalid ID"))
         ELSE CallDb(r, rq, "put_find", [NoLoc EXCEPT !.idNum = idNum.val])
  /\ UNCHANGED <<server, db, dbVars, hist>>

\* The existence check resolves.
PutFind(r) ==
  /\ Resumes(r, "put_find")
  /\ IF Find(contacts, loc[r].idNum) = {}
     THEN Respond(r, req[r], loc[r].idNum, ErrorJson(404, "Contact not found"))
     ELSE CallDb(r, req[r], "put_update", loc[r])
  /\ UNCHANGED <<server, db, dbVars, hist>>

\* updateOne({id: idNum}, {$set: updateData}) resolves.
PutUpdate(r) ==
  /\ Resumes(r, "put_update")
  /\ LET set == updateData(req[r].body)
         found == Find(contacts, loc[r].idNum)
     IN  IF found = {}
         THEN /\ contacts' = UpdateUnmatched(contacts, loc[r].idNum, set)
              /\ CallDb(r, req[r], "put_refetch", loc[r])
         ELSE \E c \in found :
                IF ChangesOid(c, set)
                THEN /\ contacts' = contacts
                     /\ Respond(r, req[r], loc[r].idNum, DbError)
                ELSE /\ contacts' = UpdateMatched(contacts, c, set)
                     /\ CallDb(r, req[r], "put_refetch", loc[r])
  /\ UNCHANGED <<server, db, counters, nextOid, hist>>

\* The re-read resolves; the handler responds 200 with what it found.
PutRefetch(r) ==
  /\ Resumes(r, "put_refetch")
  /\ LET found == Find(contacts, loc[r].idNum)
     IN  IF found = {}
         THEN Respond(r, req[r], loc[r].idNum, Json(200, "null", NoBody))
         ELSE \E updatedContact \in found :
                Respond(r, req[r], loc[r].idNum, Json(200, "doc", updatedContact))
  /\ UNCHANGED <<server, db, dbVars, hist>>

---------------------------------------------------------------------------
\* DELETE /contacts/:id

DeleteStart(r, id) ==
  /\ Accepts(r)
  /\ LET rq == [kind |-> "DELETE", id |-> id, body |-> NoBody]
         idNum == parseInt(id)
     IN  IF isNaN(idNum)
         THEN Respond(r, rq, 0, ErrorJson(400, "Invalid ID"))
         ELSE CallDb(r, rq, "delete_one", [NoLoc EXCEPT !.idNum = idNum.val])
  /\ UNCHANGED <<server, db, dbVars, hist>>

\* deleteOne resolves: deletedCount is 0 or 1.
DeleteDone(r) ==
  /\ Resumes(r, "delete_one")
  /\ LET found == Find(contacts, loc[r].idNum)
     IN  IF found = {}
         THEN /\ Respond(r, req[r], loc[r].idNum, ErrorJson(404, "Contact not found"))
              /\ UNCHANGED <<contacts, deleted>>
         ELSE \E c \in found :
                /\ contacts' = DeleteMatched(contacts, c)
                /\ Respond(r, req[r], loc[r].idNum,
                           Json(200, "message", "Contact deleted successfully"))
                /\ deleted' = deleted \cup {loc[r].idNum}
  /\ UNCHANGED <<server, db, counters, nextOid, maxReturned>>

---------------------------------------------------------------------------
\* The awaited database call of slot r rejects: the catch responds 500.
DbReject(r) ==
  /\ pc[r] # "idle" /\ Quiet
  /\ Respond(r, req[r], loc[r].idNum, DbError)
  /\ UNCHANGED <<server, db, dbVars, hist>>

Next ==
  \/ ConnectResolve
  \/ ConnectReject
  \/ Listen
  \/ Flush
  \/ \E r \in Slots :
       \/ GetAllStart(r)
       \/ GetAllDone(r)
       \/ \E id \in PathIds : GetOneStart(r, id)
       \/ GetOneDone(r)
       \/ \E body \in PostBodies : PostStart(r, body)
       \/ PostSeq(r)
       \/ PostInsert(r)
       \/ \E id \in PathIds, body \in PutBodies : PutStart(r, id, body)
       \/ PutFind(r)
       \/ PutUpdate(r)
       \/ PutRefetch(r)
       \/ \E id \in PathIds : DeleteStart(r, id)
       \/ DeleteDone(r)
       \/ DbReject(r)

Spec == Init /\ [][Next]_vars

---------------------------------------------------------------------------
\* Properties

\* The documents of the contacts collection whose id is i.
StoredWith(i) == {c \in contacts : c.id = i}

\* The value of the "contacts" counter (0 before its document exists).
CounterValue(cs) ==
  IF cs = {} THEN 0 ELSE (CHOOSE c \in cs : c._id = "contacts").seq

\* Slot r's handler runs a turn resumed from the await `at` and, its database
\* call not having rejected, `last` shows what it sent.
Resolved(r, at) ==
  /\ pc[r] = at
  /\ pc'[r] = "idle"
  /\ last'.res.status # 500

\* C1: in every reachable state, under any interleaving of POST requests, no
\* two stored contacts have the same id.
C1_UniqueIds ==
  \A c1, c2 \in contacts : c1.id = c2.id => c1 = c2

\* Two POSTs interleaved: the one that drew id 2 inserted first.
C1_Witness ==
  \E c1, c2 \in contacts : c1.id = 1 /\ c2.id = 2 /\ c2._id < c1._id

\* C2 (as claimed): every 201 response carries an id strictly greater than the
\* id of every 201 response sent before it.
C2_Claimed ==
  [][last'.res.status = 201 /\ last' # last => last'.res.val > maxReturned]_vars

\* C2 (amended): a POST with all five fields is never answered 400; the id it
\* draws from the counter is one more than the counter held, is 1 on an empty
\* counter, is the id of no stored contact and is strictly greater than the id
\* of every 201 response sent before the draw; and, its insert not rejecting,
\* it is answered 201 with that id.
C2_Amended ==
  /\ [](last.req.kind = "POST" /\ last.res.status = 400
          => \E k \in Required : k \notin DOMAIN last.req.body \/ last.req.body[k] = "")
  /\ [][\A r \in Slots :
          pc[r] = "post_seq" /\ pc'[r] = "post_insert"
            => /\ loc'[r].id = CounterValue(counters) + 1
               /\ counters = {} => loc'[r].id = 1
               /\ loc'[r].id > maxReturned
               /\ StoredWith(loc'[r].id) = {}]_vars
  /\ [][\A r \in Slots :
          Resolved(r, "post_insert")
            => /\ last'.res.status = 201
               /\ last'.res.val = loc[r].id
               /\ \E c \in contacts' \ contacts : c.id = loc[r].id]_vars

\* A second POST has been answered 201, with id 2.
C2_Witness ==
  /\ last.res.status = 201
  /\ last.res.val = 2
  /\ maxReturned = 2
  /\ Cardinality(contacts) = 2

\* C3: no turn of a PUT handler, whatever its body, changes the id or the _id
\* of any stored contact: the matched contact keeps both, and so does every
\* other contact.
C3_PutKeepsIds ==
  [][\A r \in Slots :
       req[r].kind = "PUT" /\ pc'[r] # pc[r]
         => /\ {<<c._id, c.id>> : c \in contacts'} = {<<c._id, c.id>> : c \in contacts}
            /\ Cardinality(contacts') = Cardinality(contacts)]_vars

\* A PUT whose body carries id and _id has updated the contact it matched.
C3_Witness ==
  \E r \in Slots :
    /\ pc[r] = "put_refetch"
    /\ {"id", "_id"} \subseteq DOMAIN req[r].body
    /\ \E c \in contacts :
         /\ c.id = loc[r].idNum
         /\ c.id # req[r].body["id"]
         /\ c.firstName = req[r].body["firstName"]

\* C4: a DELETE of an id for which a DELETE has already responded 200 responds
\* 404, whatever ran in between; a DELETE of a stored id responds 200 and
\* removes it, so of two concurrent DELETEs of a stored id the first to
\* resolve responds 200 and the other 404.
C4_DeleteOnce ==
  [][\A r \in Slots :
       Resolved(r, "delete_one")
         => /\ last'.res.status \in {200, 404}
            /\ loc[r].idNum \in deleted => last'.res.status = 404
            /\ StoredWith(loc[r].idNum) # {}
                 => /\ last'.res.status = 200
                    /\ StoredWith(loc[r].idNum)' = {}
            /\ StoredWith(loc[r].idNum) = {} => last'.res.status = 404]_vars

\* A DELETE of an id deleted before has responded 404.
C4_Witness ==
  /\ last.req.kind = "DELETE"
  /\ ~last.entry
  /\ last.res.status = 404
  /\ last.idNum \in deleted

\* C5 (as claimed): a PUT that meets no database error is answered 400, 404 or
\* 200, and a 200 carries the contact of the path id.  (The claim goes on to
\* say that this contact holds the submitted fields; the statement here
\* leaves that out and fails all the same.)
C5_Claimed ==
  last.req.kind = "PUT" /\ last.res.status \notin {0, 500}
    => /\ last.res.status \in {400, 404, 200}
       /\ last.res.status = 200
            => /\ last.res.tag = "doc"
               /\ last.res.val.id = last.idNum

\* C6: a GET of a numeric id responds 404 exactly when no contact with that
\* id is stored at the lookup, and otherwise 200 with a stored contact of that
\* id; no turn of the handler changes the contacts or the counters.
C6_GetOne ==
  /\ [][\A r \in Slots :
          Resolved(r, "get_one")
            => /\ last'.res.status = 404 <=> StoredWith(loc[r].idNum) = {}
               /\ StoredWith(loc[r].idNum) # {}
                    => /\ last'.res.status = 200
                       /\ last'.res.tag = "doc"
                       /\ last'.res.val \in StoredWith(loc[r].idNum)]_vars
  /\ [][last' # last /\ last'.req.kind = "GET"
          => UNCHANGED <<contacts, counters>>]_vars

\* A GET has responded 200 with a stored contact, another one being stored too.
C6_Witness ==
  /\ last.req.kind = "GET"
  /\ last.res.status = 200
  /\ last.res.val \in contacts
  /\ Cardinality(contacts) = 2

\* An integer literal: an optional sign and decimal digits, nothing else.
IsIntegerLiteral(id) ==
  LET ds == IF id # <<>> /\ Head(id) \in {"-", "+"} THEN Tail(id) ELSE id
  IN  /\ ds # <<>>
      /\ \A i \in 1..Len(ds) : ds[i] \in {"0", "1", "2", "3", "4", "5", "6", "7", "8", "9"}

\* C7 (as claimed): a GET, PUT or DELETE whose path id is not an integer
\* literal is answered 400 in the turn that receives it, with no lookup.
C7_Claimed ==
  last.entry /\ last.req.kind \in {"GET", "PUT", "DELETE"}
             /\ ~IsIntegerLiteral(last.req.id)
    => last.res.status = 400

\* C8: a POST whose body lacks one of the five fields, or holds it empty, is
\* answered 400 in the turn that receives it, and that turn changes neither
\* the counters nor the contacts.
C8_RejectedPost ==
  /\ [](last.req.kind = "POST" /\ last.entry
          /\ (\E k \in Required : k \notin DOMAIN last.req.body \/ last.req.body[k] = "")
          => last.res.status = 400)
  /\ [][last' # last /\ last'.req.kind = "POST" /\ last'.res.status = 400
          => UNCHANGED <<contacts, counters, nextOid>>]_vars

\* A POST has been rejected after another had been stored.
C8_Witness ==
  /\ last.req.kind = "POST"
  /\ last.res.status = 400
  /\ CounterValue(counters) = 1
  /\ contacts # {}

\* C9: no stored contact has the id of a contact a DELETE removed, and the
\* counter never decreases.
C9_NoReuse ==
  /\ [](\A c \in contacts : c.id \notin deleted)
  /\ [][CounterValue(counters') >= CounterValue(counters)]_vars

\* A PUT that passed its existence check is about to update an id deleted
\* under it, and a POST's insert has failed after its increment.
C9_Witness ==
  /\ \E r \in Slots : pc[r] = "put_update" /\ loc[r].idNum \in deleted
  /\ CounterValue(counters) > nextOid
  /\ \A q \in Slots : pc[q] \notin {"post_seq", "post_insert"}

\* C10: the server listens only once connectToDatabase has set the handle, no
\* handler is answered by getDb's 'Database not connected', and a process
\* whose connection attempt failed has exited without handling a request.
C10_ListenAfterConnect ==
  /\ [](server = "listening" => db = "db")
  /\ [](~(last.res.status = 500 /\ last.res.val = "Database not connected"))
  /\ [](server = "exited"
          => /\ db = "undefined"
             /\ last = NoExchange
             /\ \A r \in Slots : pc[r] = "idle")
  /\ [][server = "exited" => server' = "exited"]_vars

\* A handler has called getDb() and been answered from the database.
C10_Witness ==
  /\ server = "listening"
  /\ last.res.status = 200
  /\ last.res.tag = "doc"

=============================================================================
